---- MODULE Spec2Model ----
(***************************************************************************)
(* Tenant-scoped access control of the minerva-hub Payload application:    *)
(* the shared auth helpers (lib/auth), the access predicates, field-level  *)
(* guards and beforeChange hook of the Users collection, and the access    *)
(* predicates of the Tenants collection.                                   *)
(*                                                                         *)
(* JavaScript values are tagged records: field t holds the typeof-like     *)
(* tag, so that undefined, null, strings, arrays and objects stay apart.   *)
(***************************************************************************)
EXTENDS Integers, Sequences, FiniteSets, TLC

VARIABLES users, user, call

vars == <<users, user, call>>

(***************************************************************************)
(* Bounds                                                                  *)
(***************************************************************************)
MaxMembership == 2

TenantIds == {"t1", "t2"}

\* identifiers in the order the datastore hands them out
UserIdOrder == <<"u1", "u2", "u3">>

UserIds == {UserIdOrder[i] : i \in 1..Len(UserIdOrder)}

RoleTags == {"super-admin", "tenant-admin", "tenant-editor"}

(***************************************************************************)
(* JavaScript values                                                       *)
(***************************************************************************)
Undefined == [t |-> "undefined"]

Null == [t |-> "null"]

Str(s) == [t |-> "string", s |-> s]

Num == [t |-> "number"]

Bool(b) == [t |-> "boolean", b |-> b]

\* an array whose order and multiplicity matter (tenant rows, identifiers)
Arr(seq) == [t |-> "array", elems |-> seq]

\* an array only ever searched with includes(): kept as the set of its elements
RoleArr(set) == [t |-> "array", has |-> set]

\* { id?, value? } : a property that is not there reads as undefined
IdObj(id, value) == [t |-> "object", hasTenant |-> FALSE, tenant |-> Undefined,
                     id |-> id, value |-> value]

\* { tenant, id?, value? } : 'tenant' in row holds
Row(tenant, id, value) == [t |-> "object", hasTenant |-> TRUE, tenant |-> tenant,
                           id |-> id, value |-> value]

\* the row shape the hook and the tenants array field store: { tenant: id }
TenantRow(id) == Row(id, Undefined, Undefined)

\* ToBoolean of the values above (a number entry is a non-zero number)
Truthy(v) ==
  CASE v.t = "undefined" -> FALSE
    [] v.t = "null"      -> FALSE
    [] v.t = "string"    -> v.s # ""
    [] v.t = "boolean"   -> v.b
    [] OTHER             -> TRUE

\* a ?? b in the place of a || b
OrElse_nullish(a, b) == IF a.t \in {"undefined", "null"} THEN b ELSE a

\* a || b
OrElse(a, b) == IF Truthy(a) THEN a ELSE b

\* property read with optional chaining on a value that may be null, a number or an object
IdOf(v) == IF v.t = "object" THEN v.id ELSE Undefined

ValueOf(v) == IF v.t = "object" THEN v.value ELSE Undefined

RECURSIVE FilterTruthy(_)
FilterTruthy(seq) ==
  IF seq = <<>> THEN <<>>
  ELSE IF Truthy(Head(seq)) THEN <<Head(seq)>> \o FilterTruthy(Tail(seq))
       ELSE FilterTruthy(Tail(seq))

(***************************************************************************)
(* lib/auth                                                                *)
(***************************************************************************)
\* AuthUser { id, roles?, tenants? }
AuthUser(id, roles, tenants) == [t |-> "object", id |-> id, roles |-> roles,
                                 tenants |-> tenants]

isSuperAdmin_exactRole(u) ==
  IF ~Truthy(u) THEN FALSE
  ELSE IF u.roles.t # "array" THEN FALSE
  ELSE u.roles.has = {"super-admin"}

\* Boolean(user?.roles?.includes('super-admin'))
isSuperAdmin(u) ==
  IF ~Truthy(u) THEN FALSE
  ELSE IF u.roles.t # "array" THEN FALSE
  ELSE "super-admin" \in u.roles.has

\* the callback of .map() in getTenantIds
TenantIdOfEntry(tenant) ==
  IF tenant.t = "string" THEN tenant
  ELSE IF tenant.t = "object" /\ tenant.hasTenant /\ tenant.tenant.t = "string"
    THEN tenant.tenant
  ELSE IF tenant.t = "object" /\ tenant.hasTenant /\ tenant.tenant.t = "object"
    THEN OrElse(tenant.tenant.id, tenant.tenant.value)
  ELSE OrElse(IdOf(tenant), ValueOf(tenant))

getTenantIds(u) ==
  IF ~Truthy(u) THEN <<>>
  ELSE IF ~Truthy(u.tenants) THEN <<>>
  ELSE FilterTruthy([i \in 1..Len(u.tenants.elems) |->
                       TenantIdOfEntry(u.tenants.elems[i])])

(***************************************************************************)
(* Where constraints                                                       *)
(***************************************************************************)
\* { id: { equals: v } }
WhereIdEquals(v) == [t |-> "where", field |-> "id", op |-> "equals", value |-> v]

\* { 'tenants.tenant': { in: ids } }
WhereTenantIn(ids) == [t |-> "where", field |-> "tenants.tenant", op |-> "in",
                       value |-> Arr(ids)]

\* { id: { in: ids } }
WhereIdIn(ids) == [t |-> "where", field |-> "id", op |-> "in", value |-> Arr(ids)]

\* { or: constraints }
WhereOr(constraints) == [t |-> "where", field |-> "or", op |-> "or",
                         value |-> Arr(constraints)]

(***************************************************************************)
(* collections/Users : access predicates                                   *)
(***************************************************************************)
tenantScopedAccess_alwaysOr(u) ==
  IF ~Truthy(u) THEN Bool(FALSE)
  ELSE IF isSuperAdmin(u) THEN Bool(TRUE)
  ELSE WhereOr(<<WhereIdEquals(u.id), WhereTenantIn(getTenantIds(u))>>)

\* super-admins, otherwise the user's own record or the tenants they belong to
tenantScopedAccess(u) ==
  IF ~Truthy(u) THEN Bool(FALSE)
  ELSE IF isSuperAdmin(u) THEN Bool(TRUE)
  ELSE LET tenantIds == getTenantIds(u)
           constraints == <<WhereIdEquals(u.id)>> \o
                          (IF Len(tenantIds) > 0 THEN <<WhereTenantIn(tenantIds)>>
                           ELSE <<>>)
       IN  IF Len(constraints) = 1 THEN constraints[1] ELSE WhereOr(constraints)

selfOrSuperAccess_tenantWide(u) ==
  tenantScopedAccess(u)

\* super-admins or the user acting on themselves
selfOrSuperAccess(u) ==
  IF ~Truthy(u) THEN Bool(FALSE)
  ELSE IF isSuperAdmin(u) THEN Bool(TRUE)
  ELSE WhereIdEquals(u.id)

UsersAdmin_superOnly(u) == Bool(isSuperAdmin(u))

\* Users.access.admin
UsersAdmin(u) == Bool(Truthy(u))

UsersCreate_anyRole(u) ==
  IF ~Truthy(u) THEN Bool(FALSE)
  ELSE IF isSuperAdmin(u) THEN Bool(TRUE)
  ELSE IF u.roles.t # "array" THEN Bool(FALSE)
  ELSE Bool(u.roles.has # {})

\* Users.access.create
UsersCreate(u) ==
  IF ~Truthy(u) THEN Bool(FALSE)
  ELSE IF isSuperAdmin(u) THEN Bool(TRUE)
  ELSE IF u.roles.t # "array" THEN Bool(FALSE)
  ELSE Bool("tenant-admin" \in u.roles.has)

\* Users.access.read
UsersRead(u) == tenantScopedAccess(u)

\* Users.access.update
UsersUpdate(u) == selfOrSuperAccess(u)

\* user.roles.includes(...) with nothing guarding an absent user or role set
UsersDelete_unguarded(u) ==
  IF ~Truthy(u) THEN [t |-> "TypeError"]
  ELSE IF u.roles.t # "array" THEN [t |-> "TypeError"]
  ELSE Bool("super-admin" \in u.roles.has)

\* Users.access.delete
UsersDelete(u) == Bool(isSuperAdmin(u))

(***************************************************************************)
(* collections/Users : field-level guards                                  *)
(***************************************************************************)
RolesFieldUpdate_anyUser(u) == Bool(Truthy(u))

\* fields.roles.access.update
RolesFieldUpdate(u) == Bool(isSuperAdmin(u))

\* fields.roles.defaultValue
RolesDefaultValue == RoleArr({"tenant-admin"})

\* tenantsArrayField arrayFieldAccess.read
TenantsArrayFieldRead(u) == Bool(Truthy(u))

TenantsArrayFieldUpdate_anyUser(u) == Bool(Truthy(u))

\* tenantsArrayField arrayFieldAccess.update
TenantsArrayFieldUpdate(u) == Bool(isSuperAdmin(u))

\* tenantsArrayField tenantFieldAccess.read
TenantFieldRead(u) == Bool(Truthy(u))

\* tenantsArrayField tenantFieldAccess.update
TenantFieldUpdate(u) == Bool(isSuperAdmin(u))

(***************************************************************************)
(* collections/Users : hooks.beforeChange                                  *)
(***************************************************************************)
\* a mutation payload: { tenants?, roles?, email? }
Payload(tenants, roles, email) == [t |-> "object", tenants |-> tenants,
                                   roles |-> roles, email |-> email]

\* tenantIds.map((id) => ({ tenant: id }))
MapTenantRows(ids) == [i \in 1..Len(ids) |-> TenantRow(ids[i])]

\* a ?? b
Coalesce(a, b) == IF a.t \in {"undefined", "null"} THEN b ELSE a

beforeChange_mergeTenants(data, requester, operation) ==
  IF operation # "create" THEN data
  ELSE IF ~Truthy(requester) \/ isSuperAdmin(requester) THEN data
  ELSE [data EXCEPT
          !.tenants = Arr(MapTenantRows(getTenantIds(requester)) \o
                          (IF data.tenants.t = "array" THEN data.tenants.elems
                           ELSE <<>>)),
          !.roles = Coalesce(data.roles, RoleArr({"tenant-admin"}))]

beforeChange_noRoleDefault(data, requester, operation) ==
  IF operation # "create" THEN data
  ELSE IF ~Truthy(requester) \/ isSuperAdmin(requester) THEN data
  ELSE [data EXCEPT !.tenants = Arr(MapTenantRows(getTenantIds(requester)))]

beforeChange_keepPayloadTenants(data, requester, operation) ==
  IF operation # "create" THEN data
  ELSE IF ~Truthy(requester) \/ isSuperAdmin(requester) THEN data
  ELSE [data EXCEPT
          !.tenants = Coalesce(data.tenants,
                               Arr(MapTenantRows(getTenantIds(requester)))),
          !.roles = Coalesce(data.roles, RoleArr({"tenant-admin"}))]

beforeChange_noBypass(data, requester, operation) ==
  IF ~Truthy(requester) THEN data
  ELSE [data EXCEPT !.tenants = Arr(MapTenantRows(getTenantIds(requester))),
                    !.roles = Coalesce(data.roles, RoleArr({"tenant-admin"}))]

\* on user create by a tenant-admin, copy their tenants and default the role
beforeChange(data, requester, operation) ==
  IF operation # "create" THEN data
  ELSE IF ~Truthy(requester) \/ isSuperAdmin(requester) THEN data
  ELSE [data EXCEPT !.tenants = Arr(MapTenantRows(getTenantIds(requester))),
                    !.roles = Coalesce(data.roles, RoleArr({"tenant-admin"}))]

(***************************************************************************)
(* collections/Tenants : access predicates                                 *)
(***************************************************************************)
readTenantAccess(u) ==
  IF isSuperAdmin(u) THEN Bool(TRUE)
  ELSE LET tenantIds == getTenantIds(u)
       IN  IF Len(tenantIds) = 0 THEN Bool(FALSE) ELSE WhereIdIn(tenantIds)

\* Tenants.access.create
TenantsCreate(u) == Bool(isSuperAdmin(u))

\* Tenants.access.read
TenantsRead(u) == readTenantAccess(u)

TenantsUpdate_members(u) == readTenantAccess(u)

\* Tenants.access.update
TenantsUpdate(u) == Bool(isSuperAdmin(u))

\* Tenants.access.delete
TenantsDelete(u) == Bool(isSuperAdmin(u))

\* Tenants.access.admin
TenantsAdmin(u) == Bool(isSuperAdmin(u))

(***************************************************************************)
(* The second Tenants and Users configurations kept in the source          *)
(***************************************************************************)
\* Array.isArray(user?.roles) && user.roles.includes('super-admin')
isSuperAdminOfReq(u) ==
  IF ~Truthy(u) THEN FALSE
  ELSE IF u.roles.t # "array" THEN FALSE
  ELSE "super-admin" \in u.roles.has

\* Tenants.access.create / update / delete of the second configuration
Tenants2Write(u) == Bool(isSuperAdminOfReq(u))

\* Tenants.access.read of the second configuration
Tenants2Read(u) == Bool(Truthy(u))

\* fields.roles.access.create / update of the second Users configuration
Roles2FieldWrite(u) == Bool(isSuperAdminOfReq(u))

(***************************************************************************)
(* Request inputs                                                          *)
(***************************************************************************)
\* sequences over S of length at most n
RECURSIVE SeqsUpTo(_, _)
SeqsUpTo(S, n) ==
  IF n = 0 THEN {<<>>}
  ELSE LET shorter == SeqsUpTo(S, n - 1)
       IN  shorter \cup {Append(q, e) : q \in {r \in shorter : Len(r) = n - 1}, e \in S}

\* membership entries in the shapes of AuthUser.tenants, well-formed and not
MembershipEntries ==
  { Str("t1"), Str(""),
    IdObj(Str("t1"), Undefined), IdObj(Str(""), Str("t2")),
    IdObj(Undefined, Undefined),
    TenantRow(Str("t1")), TenantRow(Str("t2")),
    Row(IdObj(Undefined, Str("t2")), Undefined, Undefined),
    Row(IdObj(Undefined, Undefined), Undefined, Undefined),
    Row(Null, Str("t2"), Undefined),
    Row(Str("t1"), Str("t2"), Undefined),
    Null, Num }

\* a membership collection holding every well-formed shape and two empty entries
AllShapesMembership ==
  Arr(<< Str("t1"), IdObj(Str("t2"), Undefined), IdObj(Undefined, Str("t3")),
         TenantRow(Str("t4")),
         Row(IdObj(Str("t5"), Undefined), Undefined, Undefined),
         Row(IdObj(Undefined, Str("t6")), Undefined, Undefined),
         IdObj(Undefined, Undefined),
         Row(IdObj(Undefined, Undefined), Undefined, Undefined) >>)

Memberships ==
  {Undefined, AllShapesMembership}
    \cup {Arr(q) : q \in SeqsUpTo(MembershipEntries, MaxMembership)}

RoleValues == {Undefined} \cup {RoleArr(r) : r \in SUBSET RoleTags}

\* req.user : nobody, or the authenticated user
RequestUsers ==
  {Null, Undefined} \cup
  {AuthUser(Str(id), roles, tenants) :
     id \in {"u1", "u2"}, roles \in RoleValues, tenants \in Memberships}

Operations == {"create", "update"}

\* payloads a caller may send to the hook
Payloads ==
  {Payload(tenants, roles, email) :
     tenants \in {Undefined, Arr(<<TenantRow(Str("t2"))>>)},
     roles \in {Undefined, Null, RoleArr({}), RoleArr({"super-admin"}),
                RoleArr({"tenant-editor"})},
     email \in {Undefined, Str("a@example.org")}}

EmptyCollection == [id \in UserIds |-> Undefined]

Idle == [fn |-> "none"]

Returned(fn, result) == [fn |-> fn, result |-> result]

(***************************************************************************)
(* Evaluation of the predicates on one request                             *)
(***************************************************************************)
EvalInit ==
  /\ users = EmptyCollection
  /\ user \in RequestUsers
  /\ call = Idle

CallGetTenantIds ==
  /\ call = Idle
  /\ call' = Returned("getTenantIds", Arr(getTenantIds(user)))
  /\ UNCHANGED <<users, user>>

CallUsersAdmin ==
  /\ call = Idle
  /\ call' = Returned("Users.access.admin", UsersAdmin(user))
  /\ UNCHANGED <<users, user>>

CallUsersCreate ==
  /\ call = Idle
  /\ call' = Returned("Users.access.create", UsersCreate(user))
  /\ UNCHANGED <<users, user>>

CallUsersRead ==
  /\ call = Idle
  /\ call' = Returned("Users.access.read", UsersRead(user))
  /\ UNCHANGED <<users, user>>

CallUsersUpdate ==
  /\ call = Idle
  /\ call' = Returned("Users.access.update", UsersUpdate(user))
  /\ UNCHANGED <<users, user>>

CallUsersDelete ==
  /\ call = Idle
  /\ call' = Returned("Users.access.delete", UsersDelete(user))
  /\ UNCHANGED <<users, user>>

CallRolesFieldUpdate ==
  /\ call = Idle
  /\ call' = Returned("Users.roles.update", RolesFieldUpdate(user))
  /\ UNCHANGED <<users, user>>

CallTenantsArrayFieldRead ==
  /\ call = Idle
  /\ call' = Returned("Users.tenants.read", TenantsArrayFieldRead(user))
  /\ UNCHANGED <<users, user>>

CallTenantsArrayFieldUpdate ==
  /\ call = Idle
  /\ call' = Returned("Users.tenants.update", TenantsArrayFieldUpdate(user))
  /\ UNCHANGED <<users, user>>

CallTenantFieldRead ==
  /\ call = Idle
  /\ call' = Returned("Users.tenants.tenant.read", TenantFieldRead(user))
  /\ UNCHANGED <<users, user>>

CallTenantFieldUpdate ==
  /\ call = Idle
  /\ call' = Returned("Users.tenants.tenant.update", TenantFieldUpdate(user))
  /\ UNCHANGED <<users, user>>

CallBeforeChange ==
  /\ call = Idle
  /\ \E data \in Payloads, operation \in Operations :
       call' = [fn |-> "Users.hooks.beforeChange", data |-> data,
                operation |-> operation,
                result |-> beforeChange(data, user, operation)]
  /\ UNCHANGED <<users, user>>

CallTenantsCreate ==
  /\ call = Idle
  /\ call' = Returned("Tenants.access.create", TenantsCreate(user))
  /\ UNCHANGED <<users, user>>

CallTenantsRead ==
  /\ call = Idle
  /\ call' = Returned("Tenants.access.read", TenantsRead(user))
  /\ UNCHANGED <<users, user>>

CallTenantsUpdate ==
  /\ call = Idle
  /\ call' = Returned("Tenants.access.update", TenantsUpdate(user))
  /\ UNCHANGED <<users, user>>

CallTenantsDelete ==
  /\ call = Idle
  /\ call' = Returned("Tenants.access.delete", TenantsDelete(user))
  /\ UNCHANGED <<users, user>>

CallTenantsAdmin ==
  /\ call = Idle
  /\ call' = Returned("Tenants.access.admin", TenantsAdmin(user))
  /\ UNCHANGED <<users, user>>

CallTenants2Write ==
  /\ call = Idle
  /\ call' = Returned("Tenants2.access.write", Tenants2Write(user))
  /\ UNCHANGED <<users, user>>

CallTenants2Read ==
  /\ call = Idle
  /\ call' = Returned("Tenants2.access.read", Tenants2Read(user))
  /\ UNCHANGED <<users, user>>

CallRoles2FieldWrite ==
  /\ call = Idle
  /\ call' = Returned("Users2.roles.write", Roles2FieldWrite(user))
  /\ UNCHANGED <<users, user>>

EvalNext ==
  \/ CallGetTenantIds
  \/ CallUsersAdmin
  \/ CallUsersCreate
  \/ CallUsersRead
  \/ CallUsersUpdate
  \/ CallUsersDelete
  \/ CallRolesFieldUpdate
  \/ CallTenantsArrayFieldRead
  \/ CallTenantsArrayFieldUpdate
  \/ CallTenantFieldRead
  \/ CallTenantFieldUpdate
  \/ CallBeforeChange
  \/ CallTenantsCreate
  \/ CallTenantsRead
  \/ CallTenantsUpdate
  \/ CallTenantsDelete
  \/ CallTenantsAdmin
  \/ CallTenants2Write
  \/ CallTenants2Read
  \/ CallRoles2FieldWrite

EvalSpec == EvalInit /\ [][EvalNext]_vars

(***************************************************************************)
(* The Users collection under the framework's create / update / delete /   *)
(* find operations, each gated by the configured access predicates         *)
(***************************************************************************)
\* a stored user document
Doc(id, roles, tenants, email) == [t |-> "object", id |-> id, roles |-> roles,
                                   tenants |-> tenants, email |-> email]

\* does a document satisfy a Where constraint
RECURSIVE Matches(_, _)
Matches(where, doc) ==
  CASE where.op = "equals" -> doc.id = where.value
    [] where.op = "in" /\ where.field = "id" ->
         \E i \in 1..Len(where.value.elems) : doc.id = where.value.elems[i]
    [] where.op = "in" /\ where.field = "tenants.tenant" ->
         /\ doc.tenants.t = "array"
         /\ \E i \in 1..Len(where.value.elems), j \in 1..Len(doc.tenants.elems) :
              doc.tenants.elems[j].tenant = where.value.elems[i]
    [] where.op = "or" ->
         \E i \in 1..Len(where.value.elems) : Matches(where.value.elems[i], doc)

\* an access result applied to one document
Permits(access, doc) ==
  IF access.t = "boolean" THEN access.b ELSE Matches(access, doc)

Existing == {id \in UserIds : users[id] # Undefined}

\* the identifier the datastore gives the next document
NextId ==
  UserIdOrder[CHOOSE i \in 1..Len(UserIdOrder) :
                /\ UserIdOrder[i] \notin Existing
                /\ \A j \in 1..(i - 1) : UserIdOrder[j] \in Existing]

\* who may send a request: nobody, or a user of the collection
Requesters == {Null} \cup {users[id] : id \in Existing}

\* the profiles the collection is seeded with
SeedProfiles ==
  { <<RoleArr({"super-admin"}), Arr(<<>>)>>,
    <<RoleArr({"tenant-admin"}), Arr(<<TenantRow(Str("t1"))>>)>>,
    <<RoleArr({"tenant-admin"}), Arr(<<TenantRow(Str("t1")), TenantRow(Str("t2"))>>)>>,
    <<RoleArr({"tenant-editor"}), Arr(<<TenantRow(Str("t1"))>>)>> }

SeedDoc(id, profile) == Doc(Str(id), profile[1], profile[2], Str("seed@example.org"))

\* payloads that pass the field validation of the collection
UserPayloads ==
  { Payload(Undefined, Undefined, Str("new@example.org")),
    Payload(Undefined, RoleArr({"super-admin"}), Undefined),
    Payload(Arr(<<TenantRow(Str("t2"))>>), Undefined, Undefined),
    Payload(Arr(<<TenantRow(Str("t2"))>>), RoleArr({"super-admin"}),
            Str("new@example.org")) }

\* auth: true makes the email required when a user is created
NewUserPayloads ==
  {[data EXCEPT !.email = Str("new@example.org")] : data \in UserPayloads}

Init ==
  /\ \E p1 \in SeedProfiles, p2 \in SeedProfiles :
       users = [id \in UserIds |->
                  IF id = "u1" THEN SeedDoc("u1", p1)
                  ELSE IF id = "u2" THEN SeedDoc("u2", p2)
                  ELSE Undefined]
  /\ user = Null
  /\ call = Idle

Handled(fn, target, data, allowed) ==
  [fn |-> fn, target |-> target, data |-> data, allowed |-> allowed]

\* field defaults the framework fills in before the hooks run
WithDefaults(data) ==
  [data EXCEPT !.roles = IF data.roles.t = "undefined" THEN RolesDefaultValue
                         ELSE data.roles,
               !.tenants = IF data.tenants.t = "undefined" THEN Arr(<<>>)
                           ELSE data.tenants]

\* fields of an update the requester has no field-level update access to are ignored
WithoutDeniedFields(data, requester) ==
  [data EXCEPT !.roles = IF RolesFieldUpdate(requester).b THEN data.roles
                         ELSE Undefined,
               !.tenants = IF TenantsArrayFieldUpdate(requester).b
                              /\ TenantFieldUpdate(requester).b
                           THEN data.tenants ELSE Undefined]

\* fields the update leaves out keep their stored value
Merged(doc, data) ==
  [doc EXCEPT !.roles = IF data.roles.t = "undefined" THEN doc.roles ELSE data.roles,
              !.tenants = IF data.tenants.t = "undefined" THEN doc.tenants
                          ELSE data.tenants,
              !.email = IF data.email.t = "undefined" THEN doc.email ELSE data.email]

UserCreate ==
  \E requester \in Requesters, data \in NewUserPayloads :
    /\ Existing # UserIds
    /\ user' = requester
    /\ IF UsersCreate(requester).b
       THEN LET changed == beforeChange(WithDefaults(data), requester, "create")
                id == NextId
            IN  /\ users' = [users EXCEPT ![id] =
                               Doc(Str(id), changed.roles, changed.tenants, changed.email)]
                /\ call' = Handled("Users.create", Str(id), data, TRUE)
       ELSE /\ users' = users
            /\ call' = Handled("Users.create", Undefined, data, FALSE)

UserUpdate ==
  \E requester \in Requesters, data \in UserPayloads, id \in Existing :
    /\ user' = requester
    /\ IF Permits(UsersUpdate(requester), users[id])
       THEN LET changed == beforeChange(WithoutDeniedFields(data, requester),
                                        requester, "update")
            IN  /\ users' = [users EXCEPT ![id] = Merged(users[id], changed)]
                /\ call' = Handled("Users.update", Str(id), data, TRUE)
       ELSE /\ users' = users
            /\ call' = Handled("Users.update", Str(id), data, FALSE)

UserDelete ==
  \E requester \in Requesters, id \in Existing :
    /\ user' = requester
    /\ IF Permits(UsersDelete(requester), users[id])
       THEN /\ users' = [users EXCEPT ![id] = Undefined]
            /\ call' = Handled("Users.delete", Str(id), Undefined, TRUE)
       ELSE /\ users' = users
            /\ call' = Handled("Users.delete", Str(id), Undefined, FALSE)

UserFind ==
  \E requester \in Requesters :
    /\ user' = requester
    /\ users' = users
    /\ call' = [fn |-> "Users.find", access |-> UsersRead(requester),
                docs |-> {id \in Existing : Permits(UsersRead(requester), users[id])}]

Next ==
  \/ UserCreate
  \/ UserUpdate
  \/ UserDelete
  \/ UserFind

Spec == Init /\ [][Next]_vars

(***************************************************************************)
(* Vocabulary of the properties                                            *)
(***************************************************************************)
GRANT_ALL == Bool(TRUE)

DENY_ALL == Bool(FALSE)

Authenticated(u) == u.t = "object"

HoldsRole(u, role) == u.t = "object" /\ u.roles.t = "array" /\ role \in u.roles.has

HoldsSuperAdmin(u) == HoldsRole(u, "super-admin")

Elements(seq) == {seq[i] : i \in 1..Len(seq)}

\* the resolved tenant set of a user
ResolvedSet(u) == Elements(getTenantIds(u))

\* the tenants a stored document is a member of
MemberOf(doc) ==
  IF doc.tenants.t # "array" THEN {}
  ELSE {doc.tenants.elems[i].tenant : i \in 1..Len(doc.tenants.elems)}

AccessPredicates ==
  {"Users.access.admin", "Users.access.create", "Users.access.read",
   "Users.access.update", "Users.access.delete", "Users.roles.update",
   "Users.tenants.read", "Users.tenants.update", "Users.tenants.tenant.read",
   "Users.tenants.tenant.update", "Tenants.access.create", "Tenants.access.read",
   "Tenants.access.update", "Tenants.access.delete", "Tenants.access.admin",
   "Tenants2.access.write", "Tenants2.access.read", "Users2.roles.write"}

\* stored user documents a filter may be applied to
SampleDocs ==
  {Doc(Str(id), RoleArr({"tenant-admin"}), Arr(rows), Str("seed@example.org")) :
     id \in UserIds,
     rows \in {<<>>, <<TenantRow(Str("t1"))>>, <<TenantRow(Str("t2"))>>,
               <<TenantRow(Str("t1")), TenantRow(Str("t2"))>>}}

(***************************************************************************)
(* C1: for a user whose role set contains super-admin, whatever its other  *)
(* roles and tenant membership, every access predicate and field-level     *)
(* guard returns GRANT_ALL (boolean true), never false, never a filter.    *)
(***************************************************************************)
C1_SuperAdminGrantAll ==
  (HoldsSuperAdmin(user) /\ call.fn \in AccessPredicates) => call.result = GRANT_ALL

C1_Witness ==
  /\ HoldsSuperAdmin(user)
  /\ HoldsRole(user, "tenant-editor")
  /\ ResolvedSet(user) = {}
  /\ call.fn = "Users.access.read"
  /\ call.result = GRANT_ALL

(***************************************************************************)
(* C2: no operation performed by a non-super-admin user (User create =     *)
(* create predicate then creation hook; User update = update predicate     *)
(* plus field guards) yields a user record that holds super-admin without  *)
(* having held it before the operation.                                    *)
(***************************************************************************)
C2_NoNewSuperAdmin ==
  [][ ~HoldsSuperAdmin(user') =>
        \A id \in UserIds :
          HoldsSuperAdmin(users'[id]) => HoldsSuperAdmin(users[id]) ]_vars

(***************************************************************************)
(* C3: a user record created by a non-super-admin creator has a resolved   *)
(* tenant set that is a subset of the creator's resolved tenant set at     *)
(* creation time, whatever tenants the payload named, and no operation of  *)
(* a non-super-admin changes the tenant membership of an existing user.    *)
(***************************************************************************)
C3_TenantConfinement ==
  [][ ~HoldsSuperAdmin(user') =>
        \A id \in UserIds :
          /\ (users[id] = Undefined /\ users'[id] # Undefined)
               => ResolvedSet(users'[id]) \subseteq ResolvedSet(user')
          /\ users[id] # Undefined
               => /\ users'[id] # Undefined
                  /\ users'[id].tenants = users[id].tenants ]_vars

C3_Witness ==
  /\ call.fn = "Users.create"
  /\ call.allowed
  /\ ~HoldsSuperAdmin(user)
  /\ ResolvedSet(user) = {Str("t1")}
  /\ call.data.tenants = Arr(<<TenantRow(Str("t2"))>>)
  /\ MemberOf(users[call.target.s]) = {Str("t1")}

(***************************************************************************)
(* C4: for a create by an authenticated non-super-admin creator the hook   *)
(* returns a payload whose tenants are exactly one {tenant: id} entry per  *)
(* identifier the resolver yields for the creator (payload tenants are     *)
(* discarded), whose roles are the payload's when it specified them and    *)
(* [tenant-admin] otherwise, and whose other fields are the payload's;     *)
(* creator resolving {t1,t2} with payload {} gives                         *)
(* {tenants: [{tenant:t1},{tenant:t2}], roles: [tenant-admin]}.            *)
(***************************************************************************)
C4_HookInheritsTenants ==
  (/\ call.fn = "Users.hooks.beforeChange"
   /\ call.operation = "create"
   /\ Authenticated(user)
   /\ ~HoldsSuperAdmin(user))
  => LET ids == getTenantIds(user)
         out == call.result
     IN  /\ out.tenants.t = "array"
         /\ Len(out.tenants.elems) = Len(ids)
         /\ \A i \in 1..Len(ids) :
              out.tenants.elems[i] = [t |-> "object", hasTenant |-> TRUE,
                                      tenant |-> ids[i], id |-> Undefined,
                                      value |-> Undefined]
         /\ out.roles = IF call.data.roles.t = "array" THEN call.data.roles
                        ELSE RoleArr({"tenant-admin"})
         /\ out.email = call.data.email
         /\ (ids = <<Str("t1"), Str("t2")>>
               /\ call.data = Payload(Undefined, Undefined, Undefined))
              => out = Payload(Arr(<<TenantRow(Str("t1")), TenantRow(Str("t2"))>>),
                               RoleArr({"tenant-admin"}), Undefined)

C4_Witness ==
  /\ call.fn = "Users.hooks.beforeChange"
  /\ call.operation = "create"
  /\ HoldsRole(user, "tenant-admin")
  /\ ~HoldsSuperAdmin(user)
  /\ getTenantIds(user) = <<Str("t1"), Str("t2")>>
  /\ call.data = Payload(Undefined, Undefined, Undefined)
  /\ call.result = Payload(Arr(<<TenantRow(Str("t1")), TenantRow(Str("t2"))>>),
                           RoleArr({"tenant-admin"}), Undefined)

(***************************************************************************)
(* C5: when the creator is absent or holds super-admin the hook returns    *)
(* the payload unmodified, and so it does for every operation other than   *)
(* create, whoever the requester is.                                       *)
(***************************************************************************)
C5_HookPassThrough ==
  (/\ call.fn = "Users.hooks.beforeChange"
   /\ \/ call.operation # "create"
      \/ ~Authenticated(user)
      \/ HoldsSuperAdmin(user))
  => call.result = call.data

C5_Witness ==
  /\ call.fn = "Users.hooks.beforeChange"
  /\ call.operation = "create"
  /\ HoldsSuperAdmin(user)
  /\ ResolvedSet(user) = {Str("t1")}
  /\ call.data = Payload(Arr(<<TenantRow(Str("t2"))>>), RoleArr({"tenant-editor"}),
                         Str("a@example.org"))
  /\ call.result = call.data

(***************************************************************************)
(* C6: the roles field's update guard returns true if and only if the      *)
(* requester holds super-admin; it returns false for a non-super-admin     *)
(* even on the requester's own record, which the record-level User-update  *)
(* predicate does let it update; so no update by a non-super-admin changes *)
(* any user's role set.                                                    *)
(***************************************************************************)
C6_RolesFieldSuperAdminOnly ==
  [][ /\ RolesFieldUpdate(user') = Bool(HoldsSuperAdmin(user'))
      /\ (/\ call'.fn = "Users.update"
          /\ Authenticated(user')
          /\ ~HoldsSuperAdmin(user')
          /\ call'.target = user'.id)
         => call'.allowed
      /\ (call'.fn = "Users.update" /\ ~HoldsSuperAdmin(user'))
         => \A id \in UserIds :
              users[id] # Undefined
                => users'[id] # Undefined /\ users'[id].roles = users[id].roles ]_vars

C6_Witness ==
  /\ call.fn = "Users.update"
  /\ call.allowed
  /\ Authenticated(user)
  /\ ~HoldsSuperAdmin(user)
  /\ call.target = user.id
  /\ call.data.roles = RoleArr({"super-admin"})
  /\ call.data.email = Str("new@example.org")
  /\ user.email = Str("seed@example.org")
  /\ users[user.id.s].email = Str("new@example.org")
  /\ users[user.id.s].roles = user.roles

(***************************************************************************)
(* C7: the tenants field's update guards (on the array and on each         *)
(* entry's tenant reference) return true if and only if the requester      *)
(* holds super-admin, even for the requester's own record, which the       *)
(* record-level update predicate admits; its read guards return true if    *)
(* and only if an authenticated user is present.                           *)
(***************************************************************************)
C7_TenantsFieldGuards ==
  /\ call.fn \in {"Users.tenants.update", "Users.tenants.tenant.update"}
       => /\ call.result = Bool(HoldsSuperAdmin(user))
          /\ (Authenticated(user) /\ ~HoldsSuperAdmin(user))
               => \A doc \in SampleDocs :
                    doc.id = user.id => Permits(UsersUpdate(user), doc)
  /\ call.fn \in {"Users.tenants.read", "Users.tenants.tenant.read"}
       => call.result = Bool(Authenticated(user))

C7_Witness ==
  /\ call.fn = "Users.tenants.update"
  /\ HoldsRole(user, "tenant-admin")
  /\ ~HoldsSuperAdmin(user)
  /\ ResolvedSet(user) = {Str("t1"), Str("t2")}
  /\ call.result = DENY_ALL

(***************************************************************************)
(* C8: the User-read predicate returns DENY_ALL when no user is            *)
(* authenticated, GRANT_ALL for a super-admin, otherwise the single        *)
(* constraint id equals user.id when the resolved tenant set is empty and  *)
(* the or of exactly id equals user.id and tenants.tenant in the resolved  *)
(* set when it is not; so a non-super-admin's filter admits a user record  *)
(* only if it is its own or is a member of one of its resolved tenants.    *)
(***************************************************************************)
C8_UserRead ==
  call.fn = "Users.access.read" =>
    LET out == call.result
    IN  IF ~Authenticated(user) THEN out = DENY_ALL
        ELSE IF HoldsSuperAdmin(user) THEN out = GRANT_ALL
        ELSE /\ IF ResolvedSet(user) = {}
                THEN out = [t |-> "where", field |-> "id", op |-> "equals",
                            value |-> user.id]
                ELSE /\ out.t = "where" /\ out.op = "or"
                     /\ Len(out.value.elems) = 2
                     /\ out.value.elems[1] = [t |-> "where", field |-> "id",
                                              op |-> "equals", value |-> user.id]
                     /\ out.value.elems[2].field = "tenants.tenant"
                     /\ out.value.elems[2].op = "in"
                     /\ Elements(out.value.elems[2].value.elems) = ResolvedSet(user)
             /\ \A doc \in SampleDocs :
                  Matches(out, doc) =>
                    doc.id = user.id \/ MemberOf(doc) \cap ResolvedSet(user) # {}

C8_Witness ==
  /\ call.fn = "Users.access.read"
  /\ HoldsRole(user, "tenant-admin")
  /\ ~HoldsSuperAdmin(user)
  /\ user.tenants.t = "array"
  /\ Len(user.tenants.elems) = 2
  /\ ResolvedSet(user) = {}
  /\ call.result = WhereIdEquals(user.id)

(***************************************************************************)
(* C9: the Tenant-read predicate returns GRANT_ALL for a super-admin,      *)
(* otherwise the filter id in the resolved tenant set when the resolver    *)
(* yields at least one identifier, otherwise DENY_ALL; a non-super-admin   *)
(* is never granted read on a tenant outside its resolved set.             *)
(***************************************************************************)
C9_TenantRead ==
  call.fn \in {"Tenants.access.read", "Tenants2.access.read"} =>
    IF HoldsSuperAdmin(user) THEN call.result = GRANT_ALL
    ELSE IF ResolvedSet(user) # {}
      THEN /\ call.result.t = "where"
           /\ call.result.field = "id"
           /\ call.result.op = "in"
           /\ Elements(call.result.value.elems) = ResolvedSet(user)
    ELSE call.result = DENY_ALL

(***************************************************************************)
(* C10: the User-create predicate returns DENY_ALL when no user is         *)
(* authenticated, GRANT_ALL for a super-admin, and otherwise GRANT_ALL     *)
(* exactly when the role set contains tenant-admin (alone or with other    *)
(* roles) and DENY_ALL in every other case, an absent or empty role set    *)
(* included; it never returns a filter.                                    *)
(***************************************************************************)
C10_UserCreate ==
  call.fn = "Users.access.create" =>
    call.result = IF ~Authenticated(user) THEN DENY_ALL
                  ELSE IF HoldsSuperAdmin(user) THEN GRANT_ALL
                  ELSE IF HoldsRole(user, "tenant-admin") THEN GRANT_ALL
                  ELSE DENY_ALL

C10_Witness ==
  /\ call.fn = "Users.access.create"
  /\ user.t = "object"
  /\ user.roles = RoleArr({"tenant-admin", "tenant-editor"})
  /\ call.result = GRANT_ALL

(***************************************************************************)
(* C11: the User-update predicate returns DENY_ALL when no user is         *)
(* authenticated, GRANT_ALL for a super-admin, and for every other user    *)
(* exactly the filter id equals user.id, whatever its roles and tenant     *)
(* membership; so a non-super-admin, a tenant-admin acting on a user of    *)
(* its own tenant included, can update no record other than its own.       *)
(***************************************************************************)
C11_UserUpdate ==
  call.fn = "Users.access.update" =>
    IF ~Authenticated(user) THEN call.result = DENY_ALL
    ELSE IF HoldsSuperAdmin(user) THEN call.result = GRANT_ALL
    ELSE /\ call.result = [t |-> "where", field |-> "id", op |-> "equals",
                           value |-> user.id]
         /\ \A doc \in SampleDocs :
              Permits(call.result, doc) <=> doc.id = user.id

C11_Witness ==
  /\ call.fn = "Users.access.update"
  /\ HoldsRole(user, "tenant-admin")
  /\ ~HoldsSuperAdmin(user)
  /\ ResolvedSet(user) = {Str("t1")}
  /\ call.result = WhereIdEquals(user.id)
  /\ \E doc \in SampleDocs :
       /\ doc.id # user.id
       /\ MemberOf(doc) = {Str("t1")}
       /\ ~Permits(call.result, doc)

(***************************************************************************)
(* C12: Tenant create, update, delete and admin visibility and User delete *)
(* each return GRANT_ALL if the requester holds super-admin and DENY_ALL   *)
(* otherwise; for a non-super-admin, a member of the targeted tenant       *)
(* included, the result is boolean false and never a filter.               *)
(***************************************************************************)
C12_SuperAdminOnly ==
  call.fn \in {"Tenants.access.create", "Tenants.access.update",
               "Tenants.access.delete", "Tenants.access.admin",
               "Tenants2.access.write", "Users.access.delete"}
    => call.result = IF HoldsSuperAdmin(user) THEN GRANT_ALL ELSE DENY_ALL

C12_Witness ==
  /\ call.fn = "Tenants.access.update"
  /\ HoldsRole(user, "tenant-admin")
  /\ ~HoldsSuperAdmin(user)
  /\ Str("t1") \in ResolvedSet(user)
  /\ call.result = DENY_ALL

(***************************************************************************)
(* C13: predicates never raise: with no authenticated user (undefined or   *)
(* null) every collection-level predicate of Tenants and Users and every   *)
(* field-level guard returns DENY_ALL as a value; a user whose role set or *)
(* tenant membership is absent is evaluated without error and treated as   *)
(* holding no role and no tenant.                                          *)
(***************************************************************************)
SuperAdminOnlyPredicates ==
  {"Tenants.access.create", "Tenants.access.update", "Tenants.access.delete",
   "Tenants.access.admin", "Tenants2.access.write", "Users.access.delete",
   "Users.roles.update", "Users.tenants.update", "Users.tenants.tenant.update",
   "Users2.roles.write"}

C13_NeverRaises ==
  call.fn \in AccessPredicates =>
    /\ call.result.t \in {"boolean", "where"}
    /\ ~Authenticated(user) => call.result = DENY_ALL
    /\ (Authenticated(user) /\ user.roles.t # "array")
         => /\ call.fn \in SuperAdminOnlyPredicates => call.result = DENY_ALL
            /\ call.fn = "Users.access.create" => call.result = DENY_ALL
            /\ call.fn \in {"Users.access.read", "Users.access.update"}
                 => call.result.t = "where"
    /\ (Authenticated(user) /\ user.tenants.t # "array" /\ ~HoldsSuperAdmin(user))
         => /\ call.fn = "Tenants.access.read" => call.result = DENY_ALL
            /\ call.fn = "Users.access.read"
                 => call.result = [t |-> "where", field |-> "id", op |-> "equals",
                                   value |-> user.id]

C13_Witness ==
  /\ user = Undefined
  /\ call.fn = "Users.access.delete"
  /\ call.result = DENY_ALL

(***************************************************************************)
(* C16: the User admin-panel visibility predicate returns GRANT_ALL if an  *)
(* authenticated user is present, whatever its roles (none included) and   *)
(* tenant membership, and DENY_ALL if no user is present; unlike the       *)
(* Tenant admin-visibility predicate it does not require super-admin.      *)
(***************************************************************************)
C16_UserAdminVisibility ==
  call.fn = "Users.access.admin" =>
    /\ call.result = IF Authenticated(user) THEN GRANT_ALL ELSE DENY_ALL
    /\ (Authenticated(user) /\ ~HoldsSuperAdmin(user))
         => TenantsAdmin(user) = DENY_ALL

C16_Witness ==
  /\ call.fn = "Users.access.admin"
  /\ Authenticated(user)
  /\ user.roles = Undefined
  /\ user.tenants = Undefined
  /\ call.result = GRANT_ALL

(***************************************************************************)
(* The resolver as the specification words it                              *)
(***************************************************************************)
NonEmptyString(v) == v.t = "string" /\ v.s # ""

\* id, else value
IdElseValue(obj) == IF NonEmptyString(obj.id) THEN obj.id ELSE obj.value

\* what one membership entry stands for: a string is used directly, a tenant
\* field is dereferenced, a plain object gives id else value
ClaimedEntryId(entry) ==
  IF entry.t = "string" THEN entry
  ELSE IF entry.t = "object" /\ entry.hasTenant
    THEN IF entry.tenant.t = "string" THEN entry.tenant
         ELSE IF entry.tenant.t = "object" THEN IdElseValue(entry.tenant)
         ELSE Undefined
  ELSE IF entry.t = "object" THEN IdElseValue(entry)
  ELSE Undefined

\* the identifiers of a membership collection, entries that give nothing dropped
RECURSIVE ClaimedIds(_)
ClaimedIds(entries) ==
  IF entries = <<>> THEN <<>>
  ELSE (IF NonEmptyString(ClaimedEntryId(Head(entries)))
        THEN <<ClaimedEntryId(Head(entries))>> ELSE <<>>)
       \o ClaimedIds(Tail(entries))

\* string, {id|value} object, or {tenant: string | {id|value}} object
WellShaped(entry) ==
  \/ entry.t = "string"
  \/ entry.t = "object" /\ ~entry.hasTenant
  \/ entry.t = "object" /\ entry.hasTenant /\ entry.tenant.t \in {"string", "object"}

(***************************************************************************)
(* C14: for a membership collection built from strings, {id|value}         *)
(* objects and {tenant: string | {id|value}} objects the resolver returns  *)
(* exactly the identifiers of the specified algorithm, and nothing when    *)
(* the user or its membership collection is absent; the collection of all  *)
(* shapes resolves to {t1,...,t6}, and an entry with an empty id and a     *)
(* non-empty value resolves to the value.                                  *)
(***************************************************************************)
C14_ResolverFollowsAlgorithm ==
  call.fn = "getTenantIds" =>
    /\ (~Authenticated(user) \/ user.tenants.t # "array")
         => call.result = Arr(<<>>)
    /\ (/\ Authenticated(user)
        /\ user.tenants.t = "array"
        /\ \A i \in 1..Len(user.tenants.elems) : WellShaped(user.tenants.elems[i]))
         => Elements(call.result.elems) = Elements(ClaimedIds(user.tenants.elems))
    /\ (Authenticated(user) /\ user.tenants = AllShapesMembership)
         => Elements(call.result.elems) =
              {Str("t1"), Str("t2"), Str("t3"), Str("t4"), Str("t5"), Str("t6")}
    /\ (Authenticated(user) /\ user.tenants = Arr(<<IdObj(Str(""), Str("t2"))>>))
         => call.result = Arr(<<Str("t2")>>)

C14_Witness ==
  /\ call.fn = "getTenantIds"
  /\ Authenticated(user)
  /\ user.tenants = AllShapesMembership
  /\ call.result = Arr(<<Str("t1"), Str("t2"), Str("t3"), Str("t4"), Str("t5"),
                         Str("t6")>>)

(***************************************************************************)
(* C15: the resolver's output consists of unique, non-empty identifier     *)
(* strings: no identifier twice, also when several entries name the same   *)
(* tenant, no empty or missing value, at most one identifier per entry.    *)
(***************************************************************************)
C15_ResolverUniqueNonEmpty ==
  call.fn = "getTenantIds" =>
    LET ids == call.result.elems
    IN  /\ \A i \in 1..Len(ids) : NonEmptyString(ids[i])
        /\ \A i, j \in 1..Len(ids) : ids[i] = ids[j] => i = j
        /\ (Authenticated(user) /\ user.tenants.t = "array")
             => Len(ids) <= Len(user.tenants.elems)

(***************************************************************************)
(* C17: a membership entry that has a tenant field is resolved only by     *)
(* dereferencing that field: a string is used, an object gives id else     *)
(* value, anything else (null, number, object without id and value) gives  *)
(* nothing; the entry's own id or value is never used.                     *)
(***************************************************************************)
C17_TenantFieldOnly ==
  (/\ call.fn = "getTenantIds"
   /\ Authenticated(user)
   /\ user.tenants.t = "array"
   /\ \A i \in 1..Len(user.tenants.elems) :
        user.tenants.elems[i].t = "object" /\ user.tenants.elems[i].hasTenant)
  => call.result.elems = ClaimedIds(user.tenants.elems)

(***************************************************************************)
(* C18: create-then-read: for a non-super-admin creator whose resolved     *)
(* tenant set is not empty and any creation payload, the record the hook   *)
(* returns satisfies the filter the User-read predicate returns for that   *)
(* creator (its tenants.tenant values are exactly the creator's resolved   *)
(* identifiers), while the creator's User-update filter does not admit it. *)
(***************************************************************************)
C18_CreateThenRead ==
  (/\ call.fn = "Users.hooks.beforeChange"
   /\ call.operation = "create"
   /\ Authenticated(user)
   /\ ~HoldsSuperAdmin(user)
   /\ ResolvedSet(user) # {})
  => \A id \in UserIds :
       Str(id) # user.id =>
         LET created == Doc(Str(id), call.result.roles, call.result.tenants,
                            call.result.email)
         IN  /\ Permits(UsersRead(user), created)
             /\ MemberOf(created) = ResolvedSet(user)
             /\ ~Permits(UsersUpdate(user), created)

C18_Witness ==
  /\ call.fn = "Users.hooks.beforeChange"
  /\ call.operation = "create"
  /\ HoldsRole(user, "tenant-admin")
  /\ ~HoldsSuperAdmin(user)
  /\ ResolvedSet(user) = {Str("t1")}
  /\ call.data.tenants = Arr(<<TenantRow(Str("t2"))>>)
  /\ call.result.tenants = Arr(<<TenantRow(Str("t1"))>>)
  /\ UsersRead(user) = WhereOr(<<WhereIdEquals(user.id),
                                 WhereTenantIn(getTenantIds(user))>>)
  /\ UsersUpdate(user) = WhereIdEquals(user.id)

====
